---- MODULE Spec2Model ----
(***************************************************************************)
(* Model of scripts/apply_conditional_testcases.py: process_file (the      *)
(* attribute rewriter) and find_testcase_end (the bracket scanner).        *)
(*                                                                         *)
(* Text is modelled character by character: a string is a sequence of      *)
(* one-character strings, a file's content is one such sequence with       *)
(* "\n" separators, and a line buffer is a sequence of such sequences.     *)
(* Indices i, j, scan_i and end_line_index are 0-based as in the source;   *)
(* TLA+ sequences are 1-based, hence the "+ 1" where a sequence is read.   *)
(***************************************************************************)
EXTENDS Integers, Sequences, FiniteSets, TLC

(***************************************************************************)
(* Bounds of the model.                                                    *)
(***************************************************************************)
\* The largest number of lines of an input file.
MaxLines == 3

(***************************************************************************)
(* Text constants of the source.                                           *)
(***************************************************************************)
NL == "\n"
QUOTE == "\""
BACKSLASH == "\\"

\* The literal part of the attribute-header pattern: [TestCase(DatabaseType.
TestCasePrefix ==
    <<"[", "T", "e", "s", "t", "C", "a", "s", "e", "(", "D", "a", "t", "a",
      "b", "a", "s", "e", "T", "y", "p", "e", ".">>

IfDirective == <<"#", "i", "f", " ">>
EndifDirective == <<"#", "e", "n", "d", "i", "f">>

MSSQL_TESTS == <<"M", "S", "S", "Q", "L", "_", "T", "E", "S", "T", "S">>
MYSQL_TESTS == <<"M", "Y", "S", "Q", "L", "_", "T", "E", "S", "T", "S">>
ORACLE_TESTS == <<"O", "R", "A", "C", "L", "E", "_", "T", "E", "S", "T", "S">>
POSTGRESQL_TESTS ==
    <<"P", "O", "S", "T", "G", "R", "E", "S", "Q", "L", "_", "T", "E", "S", "T", "S">>
SQLITE_TESTS == <<"S", "Q", "L", "I", "T", "E", "_", "T", "E", "S", "T", "S">>

MicrosoftSQLServer ==
    <<"M", "i", "c", "r", "o", "s", "o", "f", "t", "S", "Q", "L", "S", "e",
      "r", "v", "e", "r">>
MySql == <<"M", "y", "S", "q", "l">>
Oracle == <<"O", "r", "a", "c", "l", "e">>
PostgreSql == <<"P", "o", "s", "t", "g", "r", "e", "S", "q", "l">>
Sqlite == <<"S", "q", "l", "i", "t", "e">>

\* A mapping with the Oracle and PostgreSql symbols exchanged.
DB_TYPE_TO_SYMBOL_Swapped ==
    (MicrosoftSQLServer :> MSSQL_TESTS) @@ (MySql :> MYSQL_TESTS)
        @@ (Oracle :> POSTGRESQL_TESTS) @@ (PostgreSql :> ORACLE_TESTS)
        @@ (Sqlite :> SQLITE_TESTS)

\* DB_TYPE_TO_SYMBOL: DatabaseType enum value -> conditional compilation symbol.
DB_TYPE_TO_SYMBOL ==
    (MicrosoftSQLServer :> MSSQL_TESTS) @@ (MySql :> MYSQL_TESTS)
        @@ (Oracle :> ORACLE_TESTS) @@ (PostgreSql :> POSTGRESQL_TESTS)
        @@ (Sqlite :> SQLITE_TESTS)

(***************************************************************************)
(* Character classes of Python's re module, over the characters used.     *)
(***************************************************************************)
\* \s : whitespace.  A line holds no "\n" (it was split on it).
WhitespaceChars == {" ", "\t", "\r", "\f"}

\* \w : letters, digits and the underscore.
WordChars ==
    {"A", "B", "C", "D", "E", "F", "G", "H", "I", "J", "K", "L", "M", "N",
     "O", "P", "Q", "R", "S", "T", "U", "V", "W", "X", "Y", "Z",
     "a", "b", "c", "d", "e", "f", "g", "h", "i", "j", "k", "l", "m", "n",
     "o", "p", "q", "r", "s", "t", "u", "v", "w", "x", "y", "z",
     "0", "1", "2", "3", "4", "5", "6", "7", "8", "9", "_"}

(***************************************************************************)
(* String operations.                                                      *)
(***************************************************************************)
\* pat in s : pat occurs in s as a contiguous substring.
Contains(s, pat) ==
    \E k \in 0..(Len(s) - Len(pat)) : SubSeq(s, k + 1, k + Len(pat)) = pat

\* The length of the longest prefix of s, from 0-based offset from, whose
\* characters are all in class (a greedy  class*  of the regex).
RECURSIVE RunLength(_, _, _)
RunLength(s, from, class) ==
    IF from < Len(s) /\ s[from + 1] \in class
    THEN 1 + RunLength(s, from + 1, class)
    ELSE 0

\* content.split('\n') : cut at every "\n"; an empty content gives [''].
RECURSIVE Split(_)
Split(s) ==
    IF \E k \in 1..Len(s) : s[k] = NL
    THEN LET k == CHOOSE n \in 1..Len(s) :
                      s[n] = NL /\ \A m \in 1..(n - 1) : s[m] # NL
         IN <<SubSeq(s, 1, k - 1)>> \o Split(SubSeq(s, k + 1, Len(s)))
    ELSE <<s>>

\* '\n'.join(ls)
RECURSIVE Join(_)
Join(ls) ==
    IF Len(ls) = 0 THEN <<>>
    ELSE IF Len(ls) = 1 THEN ls[1]
    ELSE ls[1] \o <<NL>> \o Join(Tail(ls))

(***************************************************************************)
(* re.match of a line against the attribute-header pattern                 *)
(*     ^ <whitespace, any number> [TestCase(DatabaseType. <word chars,     *)
(*       one or more> <"," or ")">                                         *)
(* with group 1 the whitespace and group 2 the word.  Both runs are        *)
(* greedy; "[" is no whitespace and neither "," nor ")" a word character,  *)
(* so only the longest run can be followed by the next token and           *)
(* backtracking finds no other match.                                      *)
(***************************************************************************)
AttributeMatch(line) ==
    LET ws == RunLength(line, 0, WhitespaceChars)
        p == ws + Len(TestCasePrefix)
        w == RunLength(line, p, WordChars)
        ok == /\ p <= Len(line)
              /\ SubSeq(line, ws + 1, p) = TestCasePrefix
              /\ w >= 1
              /\ p + w < Len(line)
              /\ line[p + w + 1] \in {",", ")"}
    IN [matched |-> ok,
        indent |-> SubSeq(line, 1, ws),
        db_type |-> IF ok THEN SubSeq(line, p + 1, p + w) ELSE <<>>]

(***************************************************************************)
(* The input files: every sequence of 1..MaxLines lines of LinePool,       *)
(* joined with "\n".  The pool holds a header for each backend of the      *)
(* mapping, one for a backend that is not in it, headers that close on     *)
(* their own line and headers that do not, bracket characters inside       *)
(* regular and verbatim strings, an escaped quote, a doubled quote, lines  *)
(* that already hold a guard directive, and the empty line.                *)
(***************************************************************************)
Header(indent, db, rest) == indent \o TestCasePrefix \o db \o rest

\* [TestCase(DatabaseType.MicrosoftSQLServer,"\"]")]
LineMsSql ==
    Header(<<>>, MicrosoftSQLServer,
           <<",", QUOTE, BACKSLASH, QUOTE, "]", QUOTE, ")", "]">>)
\* <space>[TestCase(DatabaseType.MySql,          (closes on a later line)
LineMySqlOpen == Header(<<" ">>, MySql, <<",">>)
\* [TestCase(DatabaseType.Oracle)]
LineOracle == Header(<<>>, Oracle, <<")", "]">>)
\* <tab>[TestCase(DatabaseType.PostgreSql,@"[""]")]
LinePostgreSql ==
    Header(<<"\t">>, PostgreSql,
           <<",", "@", QUOTE, "[", QUOTE, QUOTE, "]", QUOTE, ")", "]">>)
\* [TestCase(DatabaseType.Sqlite,"               (the string stays open)
LineSqliteOpen == Header(<<>>, Sqlite, <<",", QUOTE>>)
\* [TestCase(DatabaseType.Db2)]                  (Db2 is not in the mapping)
LineUnknown == Header(<<>>, <<"D", "b", "2">>, <<")", "]">>)
\* "]"]   closes LineMySqlOpen (the first "]" is quoted) and LineSqliteOpen
\*        (the first quote ends its string)
LineClose == <<QUOTE, "]", QUOTE, "]">>
\* #if MSSQL_TESTS
LineIfMsSql == IfDirective \o MSSQL_TESTS
\* #if ORACLE_TESTS
LineIfOracle == IfDirective \o ORACLE_TESTS
\* the empty line, as after a final "\n"
LineEmpty == <<>>

LinePool ==
    {LineMsSql, LineMySqlOpen, LineOracle, LinePostgreSql, LineSqliteOpen,
     LineUnknown, LineClose, LineIfMsSql, LineIfOracle, LineEmpty}

\* All sequences of 1..n elements of S.
SeqsUpTo(S, n) == UNION {[1..k -> S] : k \in 1..n}

InputFiles == {Join(ls) : ls \in SeqsUpTo(LinePool, MaxLines)}

(***************************************************************************)
(* State.                                                                  *)
(***************************************************************************)
VARIABLES
    file,               \* the content of the file at file_path, on disk
    run,                \* which call of process_file on the file this is (1, 2)
    pc,                 \* where the call is: "start", "loop", "scan", "wrap",
                        \* "write", "done"
    err,                \* the except clause taken: "none", "read", "write"
    ret,                \* the returned pair <<count, modified>>, at "done"
    writes,             \* the number of write_text calls made by this call
    content,            \* process_file: content, and original_content
    lines,              \* process_file: lines
    new_lines,          \* process_file: new_lines
    count,              \* process_file: count
    i,                  \* process_file: i
    end_line_index,     \* process_file: end_line_index
    matched_close,      \* the scanner returned at its "return i" (line 79),
                        \* not at its final "return start_index" (line 85)
    spans,              \* history: one record per wrapped span, with the
                        \* input lines start..end it covers and the output
                        \* indices open, close of its two guard lines
    scan_i,             \* find_testcase_end: i
    j,                  \* find_testcase_end: j
    bracket_depth,      \* find_testcase_end: bracket_depth
    in_string,          \* find_testcase_end: in_string
    in_verbatim_string, \* find_testcase_end: in_verbatim_string
    escape_next         \* find_testcase_end: escape_next

scanVars == <<scan_i, j, bracket_depth, in_string, in_verbatim_string, escape_next>>
fileVars == <<file, run, err, ret, writes>>
rewriteVars == <<content, lines, new_lines, count, i, end_line_index, matched_close, spans>>
vars == <<pc, fileVars, rewriteVars, scanVars>>

\* The locals of find_testcase_end as its lines 29-32 set them.
ScanReset ==
    /\ scan_i = 0
    /\ j = 0
    /\ bracket_depth = 0
    /\ in_string = FALSE
    /\ in_verbatim_string = FALSE
    /\ escape_next = FALSE

\* The locals of process_file before it has assigned any.
LocalsReset ==
    /\ err = "none"
    /\ ret = <<>>
    /\ writes = 0
    /\ content = <<>>
    /\ lines = <<>>
    /\ new_lines = <<>>
    /\ count = 0
    /\ i = 0
    /\ end_line_index = 0
    /\ matched_close = FALSE
    /\ spans = <<>>

Init ==
    /\ file \in InputFiles
    /\ run = 1
    /\ pc = "start"
    /\ LocalsReset
    /\ ScanReset

(***************************************************************************)
(* process_file, up to its loop.                                           *)
(***************************************************************************)
\* A guard test that looks for the MySql symbol alone.
HasGuardMySqlOnly(text) == Contains(text, IfDirective \o MYSQL_TESTS)

\* '#if MSSQL_TESTS' in content or '#if MYSQL_TESTS' in content
HasGuard(text) ==
    \/ Contains(text, IfDirective \o MSSQL_TESTS)
    \/ Contains(text, IfDirective \o MYSQL_TESTS)

\* read_text raises: the error is printed and (0, False) returned.
ReadError ==
    /\ pc = "start"
    /\ err' = "read"
    /\ ret' = <<0, FALSE>>
    /\ pc' = "done"
    /\ UNCHANGED <<file, run, writes, rewriteVars, scanVars>>

\* The content already holds a directive: (0, False) is returned.
SkipGuarded ==
    /\ pc = "start"
    /\ HasGuard(file)
    /\ content' = file
    /\ ret' = <<0, FALSE>>
    /\ pc' = "done"
    /\ UNCHANGED <<file, run, err, writes, scanVars>>
    /\ UNCHANGED <<lines, new_lines, count, i, end_line_index, matched_close, spans>>

\* The content is read and split, and the loop's locals are set.
Begin ==
    /\ pc = "start"
    /\ ~HasGuard(file)
    /\ content' = file
    /\ lines' = Split(file)
    /\ new_lines' = <<>>
    /\ count' = 0
    /\ i' = 0
    /\ pc' = "loop"
    /\ UNCHANGED <<fileVars, end_line_index, matched_close, spans, scanVars>>

(***************************************************************************)
(* process_file: the loop.                                                 *)
(***************************************************************************)
\* A membership test that takes every backend identifier as known.
KnownBackendAny(db_type) == TRUE

\* db_type in DB_TYPE_TO_SYMBOL
KnownBackend(db_type) == db_type \in DOMAIN DB_TYPE_TO_SYMBOL

\* The line at i is one to wrap: it matches, and its backend is in the mapping.
ToWrap(line) ==
    LET m == AttributeMatch(line) IN m.matched /\ KnownBackend(m.db_type)

\* new_lines.append(line); i += 1
CopyLine ==
    /\ pc = "loop"
    /\ i < Len(lines)
    /\ ~ToWrap(lines[i + 1])
    /\ new_lines' = Append(new_lines, lines[i + 1])
    /\ i' = i + 1
    /\ UNCHANGED <<pc, fileVars, content, lines, count, end_line_index, matched_close, spans, scanVars>>

\* find_testcase_end(lines, i) is called: start_index is i, and the scan's
\* locals are as lines 29-32 set them.
CallScan ==
    /\ pc = "loop"
    /\ i < Len(lines)
    /\ ToWrap(lines[i + 1])
    /\ pc' = "scan"
    /\ scan_i' = i
    /\ j' = 0
    /\ bracket_depth' = 0
    /\ in_string' = FALSE
    /\ in_verbatim_string' = FALSE
    /\ escape_next' = FALSE
    /\ UNCHANGED <<fileVars, rewriteVars>>

\* The lines of one span, copied with one line too few.
SpanLinesShort(ls, from, to) == SubSeq(ls, from + 1, to)

\* for j in range(i, end_line_index + 1): new_lines.append(lines[j])
SpanLines(ls, from, to) == SubSeq(ls, from + 1, to + 1)

\* A count that is not incremented.
NewCountSame(c) == c

\* count += 1
NewCount(c) == c + 1

\* An index that stays on the header.
NextIndexSame(from, to) == from

\* An index that advances by one line whatever the span.
NextIndexOneLine(from, to) == from + 1

\* i = end_line_index + 1
NextIndex(from, to) == to + 1

\* The scanner has returned: the guard pair is put around lines i..end_line_index.
Wrap ==
    /\ pc = "wrap"
    /\ LET m == AttributeMatch(lines[i + 1])
           symbol == DB_TYPE_TO_SYMBOL[m.db_type]
           out == new_lines \o <<m.indent \o IfDirective \o symbol>>
                      \o SpanLines(lines, i, end_line_index)
                      \o <<m.indent \o EndifDirective>>
       IN /\ new_lines' = out
          /\ spans' = Append(spans, [start |-> i, end |-> end_line_index,
                                     open |-> Len(new_lines) + 1,
                                     close |-> Len(out),
                                     found |-> matched_close])
    /\ count' = NewCount(count)
    /\ i' = NextIndex(i, end_line_index)
    /\ pc' = "loop"
    /\ UNCHANGED <<fileVars, content, lines, end_line_index, matched_close, scanVars>>

(***************************************************************************)
(* process_file, after its loop.                                           *)
(***************************************************************************)
\* A test that takes every result as modified.
ModifiedAlways(new_content, original_content) == TRUE

\* modified = new_content != original_content
Modified(new_content, original_content) == new_content # original_content

\* new_content = '\n'.join(new_lines); the return of (count, False) when the
\* content is not modified.
Finish ==
    /\ pc = "loop"
    /\ i >= Len(lines)
    /\ IF Modified(Join(new_lines), content)
       THEN /\ pc' = "write"
            /\ ret' = ret
       ELSE /\ pc' = "done"
            /\ ret' = <<count, FALSE>>
    /\ UNCHANGED <<file, run, err, writes, rewriteVars, scanVars>>

\* write_text succeeds: (count, True) is returned.
WriteOk ==
    /\ pc = "write"
    /\ file' = Join(new_lines)
    /\ writes' = writes + 1
    /\ ret' = <<count, TRUE>>
    /\ pc' = "done"
    /\ UNCHANGED <<run, err, rewriteVars, scanVars>>

\* write_text raises: (count, False) is returned.  It raises either before it
\* has opened the file, which is then as it was, or after it has truncated it.
WriteError ==
    /\ pc = "write"
    /\ file' \in {file, <<>>}
    /\ writes' = writes + 1
    /\ err' = "write"
    /\ ret' = <<count, FALSE>>
    /\ pc' = "done"
    /\ UNCHANGED <<run, rewriteVars, scanVars>>

\* process_file is called on the same file again, after a call that met no
\* I/O error: every local starts afresh.
Rerun ==
    /\ pc = "done"
    /\ run = 1
    /\ err = "none"
    /\ run' = 2
    /\ pc' = "start"
    /\ err' = "none"
    /\ ret' = <<>>
    /\ writes' = 0
    /\ content' = <<>>
    /\ lines' = <<>>
    /\ new_lines' = <<>>
    /\ count' = 0
    /\ i' = 0
    /\ end_line_index' = 0
    /\ matched_close' = FALSE
    /\ spans' = <<>>
    /\ UNCHANGED <<file, scanVars>>

(***************************************************************************)
(* find_testcase_end(lines, start_index), one action per branch of the     *)
(* body of its while loop.  start_index is the caller's i, which does not  *)
(* change while the scanner runs.                                          *)
(***************************************************************************)
\* line = lines[i]
ScanLine == lines[scan_i + 1]
\* char = line[j]
ScanChar == ScanLine[j + 1]
\* while j < len(line)
AtChar == pc = "scan" /\ j < Len(ScanLine)
\* j + 1 < len(line) and line[j + 1] == '"'
NextIsQuote == j + 1 < Len(ScanLine) /\ ScanLine[j + 2] = QUOTE

\* The test of line 42 without its in_string part.
VerbatimOpensInString ==
    ScanChar = "@" /\ NextIsQuote /\ ~in_verbatim_string
\* The test of line 42 without its look at the next character.
VerbatimOpensNoLookahead ==
    ScanChar = "@" /\ ~in_string /\ ~in_verbatim_string

\* The test of line 42.
VerbatimOpens ==
    ScanChar = "@" /\ NextIsQuote /\ ~in_string /\ ~in_verbatim_string
\* The test of line 67.
BackslashEscapes ==
    ScanChar = BACKSLASH /\ in_string /\ ~in_verbatim_string

\* A bracket test that looks at in_string alone.
CountsBracketsRegularOnly(in_s, in_v) == ~in_s

\* if not in_string and not in_verbatim_string
CountsBrackets(in_s, in_v) == ~in_s /\ ~in_v

\* bracket_depth after the character at j, which lines 73-77 may count.
DepthAfter ==
    IF CountsBrackets(in_string, in_verbatim_string) /\ ScanChar = "["
    THEN bracket_depth + 1
    ELSE IF CountsBrackets(in_string, in_verbatim_string) /\ ScanChar = "]"
    THEN bracket_depth - 1
    ELSE bracket_depth

\* A return test made after either bracket.
ReturnsOnAnyBracket ==
    ScanChar \in {"[", "]"} /\ DepthAfter = 0 /\ DepthAfter # bracket_depth

\* Lines 76-78: the character is a counted ']' and bracket_depth is 0 after it.
Returns ==
    ScanChar = "]" /\ DepthAfter = 0 /\ DepthAfter # bracket_depth

\* A not-found result that is the last line scanned.
NotFoundResultLast(start_index, last_index) == last_index

\* Line 85: return start_index
NotFoundResult(start_index, last_index) == start_index

\* The scanner's locals go out of scope.
ScanLeave ==
    /\ scan_i' = 0
    /\ j' = 0
    /\ bracket_depth' = 0
    /\ in_string' = FALSE
    /\ in_verbatim_string' = FALSE
    /\ escape_next' = FALSE

\* Lines 42-45: @" begins a verbatim string; both characters are skipped.
ScanVerbatimOpen ==
    /\ AtChar
    /\ VerbatimOpens
    /\ in_verbatim_string' = TRUE
    /\ j' = j + 2
    /\ UNCHANGED <<pc, fileVars, rewriteVars, scan_i, bracket_depth, in_string, escape_next>>

\* Lines 48-53: a quote outside a verbatim string.
ScanQuote ==
    /\ AtChar
    /\ ~VerbatimOpens
    /\ ScanChar = QUOTE
    /\ ~in_verbatim_string
    /\ in_string' = IF ~escape_next THEN ~in_string ELSE in_string
    /\ escape_next' = FALSE
    /\ j' = j + 1
    /\ UNCHANGED <<pc, fileVars, rewriteVars, scan_i, bracket_depth, in_verbatim_string>>

\* A quote inside a verbatim string that ends it, doubled or not.
ScanVerbatimQuoteNoDoubling ==
    /\ AtChar
    /\ ScanChar = QUOTE
    /\ in_verbatim_string
    /\ j' = j + 1
    /\ in_verbatim_string' = FALSE
    /\ UNCHANGED <<pc, fileVars, rewriteVars, scan_i, bracket_depth, in_string, escape_next>>

\* Lines 56-64: a quote inside a verbatim string, doubled or not.
ScanVerbatimQuote ==
    /\ AtChar
    /\ ScanChar = QUOTE
    /\ in_verbatim_string
    /\ IF NextIsQuote
       THEN /\ j' = j + 2
            /\ in_verbatim_string' = in_verbatim_string
       ELSE /\ j' = j + 1
            /\ in_verbatim_string' = FALSE
    /\ UNCHANGED <<pc, fileVars, rewriteVars, scan_i, bracket_depth, in_string, escape_next>>

\* Lines 67-70: a backslash inside a regular string.
ScanBackslash ==
    /\ AtChar
    /\ BackslashEscapes
    /\ escape_next' = TRUE
    /\ j' = j + 1
    /\ UNCHANGED <<pc, fileVars, rewriteVars, scan_i, bracket_depth, in_string, in_verbatim_string>>

\* Lines 73-82, without the return: any other character.
ScanOther ==
    /\ AtChar
    /\ ~VerbatimOpens
    /\ ScanChar # QUOTE
    /\ ~BackslashEscapes
    /\ ~Returns
    /\ bracket_depth' = DepthAfter
    /\ escape_next' = FALSE
    /\ j' = j + 1
    /\ UNCHANGED <<pc, fileVars, rewriteVars, scan_i, in_string, in_verbatim_string>>

\* Lines 76-79: a counted ']' brings bracket_depth to 0: return i.
ScanClose ==
    /\ AtChar
    /\ ~VerbatimOpens
    /\ ScanChar # QUOTE
    /\ ~BackslashEscapes
    /\ Returns
    /\ end_line_index' = scan_i
    /\ matched_close' = TRUE
    /\ pc' = "wrap"
    /\ ScanLeave
    /\ UNCHANGED <<fileVars, content, lines, new_lines, count, i, spans>>

\* A move to the next line that takes every string as ended with its line.
ScanNextLineResetString ==
    /\ pc = "scan"
    /\ j >= Len(ScanLine)
    /\ scan_i + 1 < Len(lines)
    /\ scan_i' = scan_i + 1
    /\ j' = 0
    /\ in_string' = FALSE
    /\ in_verbatim_string' = FALSE
    /\ escape_next' = FALSE
    /\ UNCHANGED <<pc, fileVars, rewriteVars, bracket_depth>>

\* Line 34: the line is exhausted and another follows.
ScanNextLine ==
    /\ pc = "scan"
    /\ j >= Len(ScanLine)
    /\ scan_i + 1 < Len(lines)
    /\ scan_i' = scan_i + 1
    /\ j' = 0
    /\ UNCHANGED <<pc, fileVars, rewriteVars, bracket_depth, in_string, in_verbatim_string, escape_next>>

\* Line 85: the buffer is exhausted: return start_index.
ScanNotFound ==
    /\ pc = "scan"
    /\ j >= Len(ScanLine)
    /\ scan_i + 1 >= Len(lines)
    /\ end_line_index' = NotFoundResult(i, scan_i)
    /\ matched_close' = FALSE
    /\ pc' = "wrap"
    /\ ScanLeave
    /\ UNCHANGED <<fileVars, content, lines, new_lines, count, i, spans>>

ScanStep ==
    \/ ScanVerbatimOpen
    \/ ScanQuote
    \/ ScanVerbatimQuote
    \/ ScanBackslash
    \/ ScanOther
    \/ ScanClose
    \/ ScanNextLine
    \/ ScanNotFound

(***************************************************************************)
(* The specification: process_file called on an input file, and once more. *)
(***************************************************************************)
Next ==
    \/ ReadError
    \/ SkipGuarded
    \/ Begin
    \/ CopyLine
    \/ CallScan
    \/ ScanStep
    \/ Wrap
    \/ Finish
    \/ WriteOk
    \/ WriteError
    \/ Rerun

Spec == Init /\ [][Next]_vars

\* process_file runs to completion once called: no step of it waits.
SpecFair == Spec /\ WF_vars(Next)

(***************************************************************************)
(* The specification of the scanner alone: find_testcase_end called on any *)
(* line buffer of at most MaxChars characters (line separators included)   *)
(* over the characters it tells apart, from any line of the buffer.  "@"   *)
(* and the backslash are ordinary characters where they open no verbatim   *)
(* string and escape nothing.                                              *)
(***************************************************************************)
\* The largest number of characters of a scanned buffer.
MaxChars == 6

ScanAlphabet == {"[", "]", QUOTE, "@", BACKSLASH, NL}

ScanBuffers == UNION {[1..k -> ScanAlphabet] : k \in 0..MaxChars}

InitScan ==
    /\ file = <<>>
    /\ run = 1
    /\ err = "none"
    /\ ret = <<>>
    /\ writes = 0
    /\ content = <<>>
    /\ new_lines = <<>>
    /\ count = 0
    /\ end_line_index = 0
    /\ matched_close = FALSE
    /\ spans = <<>>
    /\ pc = "scan"
    /\ \E b \in ScanBuffers :
           /\ lines = Split(b)
           /\ i \in 0..(Len(Split(b)) - 1)
    /\ scan_i = i
    /\ j = 0
    /\ bracket_depth = 0
    /\ in_string = FALSE
    /\ in_verbatim_string = FALSE
    /\ escape_next = FALSE

NextScan == ScanStep

SpecScan == InitScan /\ [][NextScan]_vars

(***************************************************************************)
(* Definitions the properties are stated with.                             *)
(***************************************************************************)
\* The backend identifiers of the mapping and their symbols, as documented.
KnownNames == {MicrosoftSQLServer, MySql, Oracle, PostgreSql, Sqlite}
ExpectedSymbol(db) ==
    CASE db = MicrosoftSQLServer -> MSSQL_TESTS
      [] db = MySql -> MYSQL_TESTS
      [] db = Oracle -> ORACLE_TESTS
      [] db = PostgreSql -> POSTGRESQL_TESTS
      [] db = Sqlite -> SQLITE_TESTS
KnownSymbols == {ExpectedSymbol(db) : db \in KnownNames}

\* The output indices of the guard lines inserted so far.
OpenIndices == {spans[k].open : k \in 1..Len(spans)}
CloseIndices == {spans[k].close : k \in 1..Len(spans)}
GuardIndices == OpenIndices \cup CloseIndices

\* s without the elements at the indices idx.
Without(s, idx) ==
    LET F[n \in 0..Len(s)] ==
            IF n = 0 THEN <<>>
            ELSE IF n \in idx THEN F[n - 1]
            ELSE Append(F[n - 1], s[n])
    IN F[Len(s)]

\* The call got past the idempotence guard (split always gives a line).
Rewriting == lines # <<>>
\* The loop has ended.
LoopDone == Rewriting /\ pc \in {"write", "done"}

\* C1: the second of two calls in succession, neither of which met an I/O
\* error, returns (0, False) and leaves the file as the first call left it.
C1_SecondRunChangesNothing ==
    (run = 2 /\ pc = "done" /\ err = "none")
        => (ret = <<0, FALSE>> /\ file = content)

\* C2: no guard pair is put around a header whose scan ended without a
\* matching close (the scanner's final return start_index): every span that
\* was wrapped and counted is one whose close the scanner found.
C2_NotFoundIsNotWrapped ==
    \A k \in 1..Len(spans) : spans[k].found

\* C3: a content that holds '#if <SYMBOL>' for any of the five symbols is
\* skipped: (0, False) is returned and the file is as it was.
C3_AnyKnownGuardSkips ==
    (pc = "done" /\ err = "none"
        /\ \E sym \in KnownSymbols : Contains(content, IfDirective \o sym))
        => (ret = <<0, FALSE>> /\ count = 0 /\ file = content)

\* C4: the output without the inserted guard lines is the input: during the
\* loop the lines consumed so far, in order and unaltered, and all lines at
\* its end.
C4_SpanIntegrity ==
    /\ (Rewriting /\ pc = "loop")
           => Without(new_lines, GuardIndices) = SubSeq(lines, 1, i)
    /\ LoopDone => Without(new_lines, GuardIndices) = lines
C4_Witness ==
    /\ pc = "done" /\ err = "none"
    /\ Len(lines) = 3
    /\ Len(spans) = 1
    /\ spans[1].end > spans[1].start

\* C5: a step of the scan that reads a character while in_string or
\* in_verbatim_string holds, a '[' or ']' among them, leaves bracket_depth as
\* it was and does not return; so bracket_depth changes, and the scan returns
\* from its loop body, only on a step where both flags are false.
C5_QuotedBracketsIgnored ==
    [][(AtChar /\ (in_string \/ in_verbatim_string))
           => (bracket_depth' = bracket_depth /\ pc' = "scan")]_vars
\* A bracket has just been read inside a string, with the attribute open.
C5_Witness ==
    /\ pc = "scan"
    /\ j >= 1
    /\ ScanLine[j] \in {"[", "]"}
    /\ in_string \/ in_verbatim_string
    /\ bracket_depth = 1

\* C6: a span whose close was found on a later line than its header has its
\* '#if' right before the header, its '#endif' right after the closing line,
\* the lines between them are the input lines of the span and none of them an
\* inserted guard, and no other span starts or ends within it.
C6_MultiLineSpanWrappedOnce ==
    \A k \in 1..Len(spans) :
        LET sp == spans[k] IN
        (sp.found /\ sp.end > sp.start) =>
            /\ sp.close = sp.open + (sp.end - sp.start) + 2
            /\ SubSeq(new_lines, sp.open + 1, sp.close - 1)
                   = SubSeq(lines, sp.start + 1, sp.end + 1)
            /\ \A n \in (sp.open + 1)..(sp.close - 1) : n \notin GuardIndices
            /\ \A k2 \in 1..Len(spans) :
                   k2 # k => \/ spans[k2].end < sp.start
                             \/ spans[k2].start > sp.end
\* A span of three lines or more with a known header strictly inside it.
C6_Witness ==
    /\ pc = "done"
    /\ \E k \in 1..Len(spans) :
           /\ spans[k].found
           /\ \E n \in (spans[k].start + 1)..(spans[k].end - 1) :
                  ToWrap(lines[n + 1])

\* C7: a line that matches the header pattern with a backend that is not in
\* the mapping is appended to the output as it is, the index advances by
\* one, the count stays, no guard is recorded and the scanner is not entered.
C7_UnknownBackendPassthrough ==
    [][(/\ pc = "loop"
        /\ i < Len(lines)
        /\ AttributeMatch(lines[i + 1]).matched
        /\ AttributeMatch(lines[i + 1]).db_type \notin KnownNames)
           => (/\ new_lines' = Append(new_lines, lines[i + 1])
               /\ i' = i + 1
               /\ count' = count
               /\ spans' = spans
               /\ pc' = "loop")]_vars
\* An unknown header has been copied.
C7_Witness ==
    /\ pc = "loop"
    /\ i = 1
    /\ AttributeMatch(lines[1]).matched
    /\ AttributeMatch(lines[1]).db_type \notin KnownNames
    /\ new_lines = <<lines[1]>>
    /\ count = 0

\* C8: the guards of every wrapped span are the header's leading whitespace
\* followed by '#if ' and the symbol documented for the header's backend,
\* and the same whitespace followed by '#endif'.
C8_GuardFormat ==
    \A k \in 1..Len(spans) :
        LET header == lines[spans[k].start + 1]
            indent == SubSeq(header, 1, RunLength(header, 0, WhitespaceChars))
            db == AttributeMatch(header).db_type
        IN /\ db \in KnownNames
           /\ new_lines[spans[k].open] = indent \o IfDirective \o ExpectedSymbol(db)
           /\ new_lines[spans[k].close] = indent \o EndifDirective
\* Spans of an indented header and of an Oracle header have been wrapped.
C8_Witness ==
    /\ pc = "done"
    /\ \E k \in 1..Len(spans) :
           RunLength(lines[spans[k].start + 1], 0, WhitespaceChars) > 0
    /\ \E k \in 1..Len(spans) :
           AttributeMatch(lines[spans[k].start + 1]).db_type = Oracle

\* C9: count is the number of '#if' lines and the number of '#endif' lines
\* inserted so far; the output has two lines more than the input lines
\* consumed for each of them, and len(input) + 2 * count lines at the end.
C9_CountAccuracy ==
    /\ count = Cardinality(OpenIndices)
    /\ count = Cardinality(CloseIndices)
    /\ OpenIndices \cap CloseIndices = {}
    /\ GuardIndices \subseteq 1..Len(new_lines)
    /\ (Rewriting /\ pc = "loop") => Len(new_lines) = i + 2 * count
    /\ LoopDone => Len(new_lines) = Len(lines) + 2 * count
C9_Witness ==
    /\ pc = "done"
    /\ count = 2
    /\ Len(new_lines) = Len(lines) + 4

\* C10: a call on a content that holds '#if MSSQL_TESTS' or '#if MYSQL_TESTS'
\* ends with (0, False) returned, nothing wrapped, no write_text call made
\* and the file as it was read.
C10_MarkedFileUntouched ==
    pc = "done" =>
        ((\/ Contains(content, IfDirective \o MSSQL_TESTS)
          \/ Contains(content, IfDirective \o MYSQL_TESTS))
            => (/\ ret = <<0, FALSE>>
                /\ count = 0
                /\ writes = 0
                /\ new_lines = <<>>
                /\ file = content))
\* A skipped content that holds a header the loop would have wrapped.
C10_Witness ==
    /\ pc = "done"
    /\ Contains(content, IfDirective \o MSSQL_TESTS)
    /\ \E n \in 1..Len(Split(content)) : ToWrap(Split(content)[n])

(***************************************************************************)
(* The scanner's properties.  A character is unquoted when it is read      *)
(* with in_string and in_verbatim_string both false.                       *)
(***************************************************************************)
Unquoted == ~in_string /\ ~in_verbatim_string
\* The step leaves the scanner: find_testcase_end returns.
ScanReturns == pc = "scan" /\ pc' # "scan"
\* The step is a turn of the while loop that stays on the line.
ScanStays == AtChar /\ pc' = "scan"

\* C11: a scan that does not end at an unquoted ']' bringing bracket_depth
\* from 1 to 0 ends only when the last line of the buffer is exhausted, and
\* it then returns start_index and nothing else.
C11_NotFoundReturnsStart ==
    [][(ScanReturns
        /\ ~(AtChar /\ ScanChar = "]" /\ Unquoted /\ bracket_depth = 1))
           => (/\ scan_i = Len(lines) - 1
               /\ j >= Len(ScanLine)
               /\ pc' = "wrap"
               /\ ~matched_close'
               /\ end_line_index' = i)]_vars
\* A scan from a line that is not the first, over two lines or more, has
\* ended without a match.
C11_Witness ==
    /\ pc = "wrap"
    /\ ~matched_close
    /\ i >= 1
    /\ Len(lines) >= i + 2
    /\ end_line_index = i

\* C13: escape_next is set by a step exactly when the step reads, inside a
\* regular string, a backslash that is not itself escaped; so it is cleared
\* by the character after that backslash, another backslash included.
C13_OnlyUnescapedBackslashEscapes ==
    [][AtChar =>
         (escape_next' <=> (/\ ScanChar = BACKSLASH
                            /\ in_string
                            /\ ~in_verbatim_string
                            /\ ~escape_next))]_vars

\* C14: in_string and in_verbatim_string are never both true.
C14_StringFlagsExclusive == ~(in_string /\ in_verbatim_string)
\* Inside a regular string an '@' has been read and a quote comes next.
C14_Witness ==
    /\ pc = "scan"
    /\ in_string
    /\ j >= 1
    /\ j < Len(ScanLine)
    /\ ScanLine[j] = "@"
    /\ ScanLine[j + 1] = QUOTE

\* C15: the scanner returns a found line only on reading an unquoted ']'
\* with bracket_depth 1, and returns the line of that character; every such
\* ']' ends the scan, so it is the first; an unquoted ']' read with
\* bracket_depth 0 or less lowers it and the scan goes on, and an unquoted
\* '[' raises it and the scan goes on, also from -1 to 0.
C15_MatchingClose ==
    /\ [][(ScanReturns /\ matched_close')
              => (/\ AtChar /\ ScanChar = "]" /\ Unquoted
                  /\ bracket_depth = 1
                  /\ end_line_index' = scan_i)]_vars
    /\ [][(AtChar /\ ScanChar = "]" /\ Unquoted /\ bracket_depth = 1)
              => (pc' = "wrap" /\ matched_close' /\ end_line_index' = scan_i)]_vars
    /\ [][(AtChar /\ ScanChar = "]" /\ Unquoted /\ bracket_depth <= 0)
              => (pc' = "scan" /\ bracket_depth' = bracket_depth - 1)]_vars
    /\ [][(AtChar /\ ScanChar = "[" /\ Unquoted)
              => (pc' = "scan" /\ bracket_depth' = bracket_depth + 1)]_vars
\* The line ][[] : a ']' at depth 0, a '[' from -1 to 0, and then a match.
C15_Witness ==
    /\ pc = "wrap"
    /\ matched_close
    /\ lines[end_line_index + 1] = <<"]", "[", "[", "]">>

\* C16: inside a verbatim string a quote followed on its line by a quote is
\* skipped with it and the string stays open, any other quote ends the
\* string, and no other character ends it or changes bracket_depth.
C16_VerbatimInterior ==
    /\ [][(AtChar /\ in_verbatim_string /\ ScanChar = QUOTE)
              => (/\ IF NextIsQuote
                     THEN j' = j + 2 /\ in_verbatim_string'
                     ELSE j' = j + 1 /\ ~in_verbatim_string'
                  /\ bracket_depth' = bracket_depth
                  /\ scan_i' = scan_i
                  /\ pc' = "scan")]_vars
    /\ [][(AtChar /\ in_verbatim_string /\ ScanChar # QUOTE)
              => (/\ j' = j + 1
                  /\ in_verbatim_string'
                  /\ bracket_depth' = bracket_depth
                  /\ pc' = "scan")]_vars
\* @"""] has been read: the bracket after the doubled quote was not counted.
C16_Witness ==
    /\ pc = "scan"
    /\ j = 5
    /\ SubSeq(ScanLine, 1, 5) = <<"@", QUOTE, QUOTE, QUOTE, "]">>
    /\ in_verbatim_string
    /\ bracket_depth = 0

\* The three cases of C17 that hold as stated: (2) inside a regular string
\* an '@' before a quote opens no verbatim string and the quote then ends
\* the regular string; (3) a backslash inside a verbatim string leaves
\* escape_next false and the verbatim string open.
C17_Cases2And3 ==
    /\ [][(AtChar /\ ScanChar = "@" /\ NextIsQuote /\ in_string)
              => (j' = j + 1 /\ in_string' /\ ~in_verbatim_string')]_vars
    /\ [][(AtChar /\ ScanChar = QUOTE /\ in_string /\ j >= 1 /\ ScanLine[j] = "@")
              => (~in_string' /\ ~in_verbatim_string')]_vars
    /\ [][(AtChar /\ ScanChar = BACKSLASH /\ in_verbatim_string)
              => (j' = j + 1 /\ ~escape_next' /\ in_verbatim_string')]_vars

\* C17 as stated: (1) an '@' with no quote right after it on its line
\* changes none of in_string, in_verbatim_string, escape_next; (2); (3).
C17_AtSignChangesNoFlag ==
    /\ [][(ScanStays /\ ScanChar = "@" /\ ~NextIsQuote)
              => UNCHANGED <<in_string, in_verbatim_string, escape_next>>]_vars
    /\ C17_Cases2And3

\* C17, amended: (1) an '@' with no quote right after it on its line is
\* skipped alone, changes neither in_string, in_verbatim_string nor
\* bracket_depth, and leaves escape_next false, as every ordinary character
\* does; (2); (3).
C17_VerbatimEdgeCases ==
    /\ [][(ScanStays /\ ScanChar = "@" /\ ~NextIsQuote)
              => (/\ j' = j + 1
                  /\ UNCHANGED <<in_string, in_verbatim_string, bracket_depth>>
                  /\ ~escape_next')]_vars
    /\ C17_Cases2And3
\* @[ has been read: the bracket after the '@' was counted.
C17_Witness ==
    /\ pc = "scan"
    /\ j = 2
    /\ SubSeq(ScanLine, 1, 2) = <<"@", "[">>
    /\ Unquoted
    /\ bracket_depth = 1

\* C20: the move to the next line changes only the line and column indices;
\* the last character of a line is never taken with a character of the next
\* line (an '@' there opens no verbatim string, a quote there ends one); and
\* escape_next holds only inside a regular string.
C20_ScanStateAcrossLines ==
    /\ [][(pc = "scan" /\ pc' = "scan" /\ scan_i' # scan_i)
              => (/\ scan_i' = scan_i + 1
                  /\ j' = 0
                  /\ UNCHANGED <<in_string, in_verbatim_string, escape_next,
                                 bracket_depth>>)]_vars
    /\ [][(ScanStays /\ j + 1 = Len(ScanLine))
              => (/\ j' = j + 1
                  /\ scan_i' = scan_i
                  /\ in_verbatim_string'
                         = (in_verbatim_string /\ ScanChar # QUOTE))]_vars
    /\ [](escape_next => (in_string /\ ~in_verbatim_string))
\* On the line after the one that opened a string, a ']' was not counted.
C20_Witness ==
    /\ pc = "scan"
    /\ scan_i = i + 1
    /\ j = 1
    /\ ScanLine[1] = "]"
    /\ in_string
    /\ bracket_depth = 1

(***************************************************************************)
(* The properties of one call of process_file: its write and its result.   *)
(***************************************************************************)
\* C12: within one call the file is written at most once, by the step that
\* follows the end of the loop, and only with a content that differs from
\* the one read; a call that is skipped by the guard check, whose read
\* fails, or that wraps nothing, never writes.
C12_WriteDiscipline ==
    /\ [](writes <= 1)
    /\ [](writes > 0 => (/\ LoopDone
                         /\ count > 0
                         /\ Join(new_lines) # content))
    /\ []((pc = "done" /\ (err = "read" \/ ~Rewriting \/ count = 0))
              => writes = 0)
    /\ [][file' # file => (/\ pc = "write"
                           /\ i >= Len(lines)
                           /\ writes = 0
                           /\ writes' = 1)]_vars
    /\ [][writes' > writes => pc = "write"]_vars
\* A call has written the wrapped content, which differs from the one read.
C12_Witness ==
    /\ pc = "done"
    /\ err = "none"
    /\ writes = 1
    /\ file = Join(new_lines)
    /\ file # content

\* C18: every turn of the scanner's while loop moves the column forward and
\* stays within the line, every turn of its for loop moves to the next line
\* of the buffer, and it returns a line between start_index and the last;
\* the rewriter's index moves forward by one on a copied line and to the
\* line after the span on a wrapped one, never backward within a call; and
\* every call reaches its return.
C18_TerminationAndProgress ==
    /\ [][(AtChar /\ pc' = "scan")
              => (j' > j /\ j' <= Len(ScanLine) /\ scan_i' = scan_i)]_vars
    /\ [][(pc = "scan" /\ ~AtChar /\ pc' = "scan")
              => (scan_i' = scan_i + 1 /\ scan_i' < Len(lines) /\ j' = 0)]_vars
    /\ [][(pc = "scan" /\ pc' # "scan")
              => (/\ i <= end_line_index'
                  /\ end_line_index' <= Len(lines) - 1
                  /\ i' = i)]_vars
    /\ [][(pc = "loop" /\ pc' = "loop") => i' = i + 1]_vars
    /\ [][pc = "wrap" => (/\ i' = end_line_index + 1
                          /\ i' - i >= 1
                          /\ i' <= Len(lines)
                          /\ pc' = "loop")]_vars
    /\ [][i' < i => pc = "done"]_vars
    /\ [](pc # "done" => ENABLED Next)
    /\ <>(pc = "done")
\* A call has finished after a wrapped span of two lines or more and a
\* copied line.
C18_Witness ==
    /\ pc = "done"
    /\ Rewriting
    /\ Len(spans) = 1
    /\ spans[1].end > spans[1].start
    /\ Len(lines) > spans[1].end - spans[1].start + 1
    /\ i = Len(lines)

\* C19: a returned call reports modified only with a count above zero; with
\* no I/O error it reports modified exactly when the count is above zero; a
\* failed write gives (count, False) with a count above zero and the file as
\* it was read; a failed read gives (0, False).
C19_ResultConsistency ==
    pc = "done" =>
        /\ ret[2] => count > 0
        /\ err = "none" => (ret = <<count, count > 0>>)
        /\ err = "write" => (ret = <<count, FALSE>> /\ count > 0 /\ file = content)
        /\ err = "read" => ret = <<0, FALSE>>

====
